---- MODULE Spec2Model ----
(***************************************************************************)
(* libchess::console::client (src/src/client.cpp): the client's life       *)
(* cycle (create, constructor, destructor), the key callback the renderer  *)
(* invokes on its input threads, the console-lock wrapper around commands, *)
(* load_fen, should_quit and redraw.                                       *)
(*                                                                         *)
(* The renderer, the game console, the command dispatcher and the board    *)
(* validator are collaborators whose code is not part of client.cpp; they  *)
(* are modelled from their contracts.                                      *)
(***************************************************************************)
EXTENDS Integers, Sequences, FiniteSets, TLC

\* ---------------------------------------------------------------- bounds
MaxKeys == 3        \* keystrokes the renderer delivers in one run
MaxOffset == 1      \* largest component of redraw_board's offset
MaxRedraws == 2     \* redraw() calls in one run (create's included)

\* ------------------------------------------------------------- constants
MainThread == "main"
InputThreads == {"in1", "in2"}

Keys == {"q", "\n"}
ArgLists == {<< >>, <<"now">>}

NoFen == "nullopt"
Fens == {"fenA", "fenB", "bad"}
Null == "null"
FreeMutex == "free"
NoHandle == 0

VARIABLES
    mpc,            \* main thread: the statement it executes next
    fenArg,         \* create's argument: NoFen or a position string
    retval,         \* create's result: "pending", "instance" or "none"
    life,           \* "unborn", "alive", "destroying", "destroyed"
    lfFen,          \* argument of the load_fen call in progress
    m_board,        \* m_engine's board
    m_should_quit,
    m_key_callback, \* handle add_key_callback returned
    m_console,      \* TRUE when m_console is non-null
    m_mutex,        \* holder of m_mutex, or FreeMutex
    key_callbacks,  \* renderer: handles registered
    removed,        \* renderer: handles passed to remove_key_callback
    accept_input,   \* game_console: the accept-input flag
    commands,       \* game_console: aliases registered
    tpc,            \* input thread: its position in the key callback
    tkey,           \* input thread: index in delivered of its keystroke
    tch,            \* input thread: the character c its callback was given
    targs,          \* input thread: arguments of the command it runs
    delivered,      \* the delivering thread of each keystroke, in delivery order
    processed,      \* indices in delivered, in process_keystroke order
    acquisitions,   \* m_mutex acquisitions by key callbacks
    quitCount,      \* command_quit executions
    redraws,        \* redraw() calls completed
    unlockedAccess, \* accesses to engine state / should_quit without m_mutex
    staleExec,      \* a callback statement ran after ~client's body
    crashed,        \* the process was terminated by a fault
    createLog,      \* the steps create has performed, in order
    mret,           \* what the owner's last load_fen / should_quit returned
    render          \* redraw_board in progress: loop position and render calls

vars == <<mpc, fenArg, retval, life, lfFen, m_board, m_should_quit,
          m_key_callback, m_console, m_mutex, key_callbacks, removed,
          accept_input, commands, tpc, tkey, tch, targs, delivered,
          processed, acquisitions, quitCount, redraws, unlockedAccess, staleExec,
          crashed, createLog, mret, render>>

\* ------------------------------------------------------- collaborators
\* board::create(fen): the parsed board, or null for a rejected string
BoardCreate(f) ==
    CASE f = "fenA" -> "boardA"
      [] f = "fenB" -> "boardB"
      [] OTHER -> Null

\* board::create_default()
BoardCreateDefault == "boardDefault"

\* renderer::add_key_callback: a fresh handle
RendererAddKeyCallback(table) == Cardinality(table) + 1

\* game_console::create(): input is not accepted until it is switched on
ConsoleInitialAcceptInput == FALSE

\* ~client has run its body (line 62)
DestructionStarted == life \in {"destroying", "destroyed"}

\* an access to engine state or should_quit, recorded when the acting
\* thread does not hold m_mutex
Touch(thr, field, op) ==
    IF m_mutex = thr THEN unlockedAccess
    ELSE unlockedAccess \cup {<<thr, field, op>>}

\* no redraw_board is being stepped through
RenderIdle == [phase |-> "idle"]

Init ==
    /\ mpc = "ctor_board"
    /\ fenArg \in {NoFen} \cup Fens
    /\ retval = "pending"
    /\ life = "unborn"
    /\ lfFen = NoFen
    /\ m_board = Null
    /\ m_should_quit \in BOOLEAN      \* indeterminate until line 86
    /\ m_key_callback = NoHandle
    /\ m_console = FALSE
    /\ m_mutex = FreeMutex
    /\ key_callbacks = {}
    /\ removed = << >>
    /\ accept_input = FALSE
    /\ commands = {}
    /\ tpc = [t \in InputThreads |-> "idle"]
    /\ tkey = [t \in InputThreads |-> 0]
    /\ tch = [t \in InputThreads |-> ""]
    /\ targs = [t \in InputThreads |-> << >>]
    /\ delivered = << >>
    /\ processed = << >>
    /\ acquisitions = 0
    /\ quitCount = 0
    /\ redraws = 0
    /\ unlockedAccess = {}
    /\ staleExec = FALSE
    /\ crashed = FALSE
    /\ createLog = << >>
    /\ mret = "none"
    /\ render = RenderIdle


\* ------------------------------------------------ client::client (81-89)
\* lines 82-83: the default board, written before the object is shared
CtorSetBoard ==
    /\ ~crashed
    /\ mpc = "ctor_board"
    /\ m_board' = BoardCreateDefault
    /\ unlockedAccess' = Touch(MainThread, "engine", "write")
    /\ life' = "alive"
    /\ mpc' = "ctor_addcb"
    /\ createLog' = Append(createLog, "set_board")
    /\ UNCHANGED <<fenArg, retval, lfFen, m_should_quit, m_key_callback,
                   m_console, m_mutex, key_callbacks, removed, accept_input,
                   commands, tpc, tkey, tch, targs, delivered, processed,
                   acquisitions, quitCount, redraws, staleExec, crashed,
                   mret, render>>

\* line 85: from here on the renderer may invoke client_key_callback
CtorAddKeyCallback ==
    /\ ~crashed
    /\ mpc = "ctor_addcb"
    /\ m_key_callback' = RendererAddKeyCallback(key_callbacks)
    /\ key_callbacks' = key_callbacks \cup {m_key_callback'}
    /\ mpc' = "ctor_quit"
    /\ UNCHANGED <<fenArg, retval, life, lfFen, m_board, m_should_quit,
                   m_console, m_mutex, removed, accept_input, commands, tpc,
                   tkey, tch, targs, delivered, processed, acquisitions,
                   quitCount, redraws, unlockedAccess, staleExec, crashed,
                   createLog, mret, render>>

\* line 86
CtorShouldQuit ==
    /\ ~crashed
    /\ mpc = "ctor_quit"
    /\ m_should_quit' = FALSE
    /\ unlockedAccess' = Touch(MainThread, "should_quit", "write")
    /\ mpc' = "ctor_console"
    /\ UNCHANGED <<fenArg, retval, life, lfFen, m_board, m_key_callback,
                   m_console, m_mutex, key_callbacks, removed, accept_input,
                   commands, tpc, tkey, tch, targs, delivered, processed,
                   acquisitions, quitCount, redraws, staleExec, crashed,
                   createLog, mret, render>>

\* line 88
CtorConsole ==
    /\ ~crashed
    /\ mpc = "ctor_console"
    /\ m_console' = TRUE
    /\ accept_input' = ConsoleInitialAcceptInput
    /\ commands' = {}
    /\ mpc' = "create_fen"
    /\ UNCHANGED <<fenArg, retval, life, lfFen, m_board, m_should_quit,
                   m_key_callback, m_mutex, key_callbacks, removed, tpc,
                   tkey, tch, targs, delivered, processed, acquisitions,
                   quitCount, redraws, unlockedAccess, staleExec, crashed,
                   createLog, mret, render>>

\* ------------------------------------------------ client::create (44-60)
\* line 47: fen.has_value()
CreateFen ==
    /\ ~crashed
    /\ mpc = "create_fen"
    /\ IF fenArg = NoFen
       THEN mpc' = "create_check" /\ lfFen' = lfFen
       ELSE mpc' = "lf_lock" /\ lfFen' = fenArg
    /\ UNCHANGED <<fenArg, retval, life, m_board, m_should_quit,
                   m_key_callback, m_console, m_mutex, key_callbacks,
                   removed, accept_input, commands, tpc, tkey, tch, targs,
                   delivered, processed, acquisitions, quitCount, redraws,
                   unlockedAccess, staleExec, crashed,
                   createLog, mret, render>>

\* ---------------------------------------------- client::load_fen (64-74)
\* line 65
LoadFenLock ==
    /\ ~crashed
    /\ mpc = "lf_lock"
    /\ m_mutex = FreeMutex
    /\ m_mutex' = MainThread
    /\ mpc' = "lf_body"
    /\ UNCHANGED <<fenArg, retval, life, lfFen, m_board, m_should_quit,
                   m_key_callback, m_console, key_callbacks, removed,
                   accept_input, commands, tpc, tkey, tch, targs, delivered,
                   processed, acquisitions, quitCount, redraws,
                   unlockedAccess, staleExec, crashed,
                   createLog, mret, render>>

\* a load_fen that reports success whatever board::create gave
LoadFenReturnAlways(b) == TRUE

\* lines 68-73: the value load_fen returns for the board board::create gave
LoadFenReturn(b) == b # Null

\* load_fen storing whatever board::create returned
LoadFenBoardUnchecked(cur, b) == b

\* lines 68-72: the engine's board after load_fen
LoadFenBoard(cur, b) == IF LoadFenReturn(b) THEN b ELSE cur

\* lines 67-74; in create (48-50) a false result leads to _client.reset()
LoadFenBody ==
    /\ ~crashed
    /\ mpc = "lf_body"
    /\ LET b == BoardCreate(lfFen) IN
        /\ m_board' = LoadFenBoard(m_board, b)
        /\ unlockedAccess' =
               IF LoadFenReturn(b) THEN Touch(MainThread, "engine", "write")
               ELSE unlockedAccess
        /\ mpc' = IF retval # "pending" THEN "loop"
                  ELSE IF LoadFenReturn(b) THEN "create_check"
                  ELSE "create_reset"
    /\ m_mutex' = FreeMutex
    /\ lfFen' = NoFen
    /\ createLog' = IF retval = "pending" /\ LoadFenReturn(BoardCreate(lfFen))
                  THEN Append(createLog, "set_board") ELSE createLog
    /\ mret' = IF LoadFenReturn(BoardCreate(lfFen)) THEN "lf_true" ELSE "lf_false"
    /\ UNCHANGED <<fenArg, retval, life, m_should_quit, m_key_callback,
                   m_console, key_callbacks, removed, accept_input, commands,
                   tpc, tkey, tch, targs, delivered, processed, acquisitions,
                   quitCount, redraws, staleExec, crashed,
                   render>>

\* line 49: the last reference is dropped and ~client is called
CreateReset ==
    /\ ~crashed
    /\ mpc = "create_reset"
    /\ mpc' = "dtor_remove"
    /\ mret' = "none"
    /\ UNCHANGED <<fenArg, retval, life, lfFen, m_board, m_should_quit,
                   m_key_callback, m_console, m_mutex, key_callbacks,
                   removed, accept_input, commands, tpc, tkey, tch, targs,
                   delivered, processed, acquisitions, quitCount, redraws,
                   unlockedAccess, staleExec, crashed,
                   createLog, render>>

\* --------------------------------------------------- client::~client (62)
\* the handle ~client passes to renderer::remove_key_callback
DtorHandle(h) == h

\* line 62: the callback is taken out of the renderer's table; a callback
\* an input thread has already entered is not waited for
DtorRemove ==
    /\ ~crashed
    /\ mpc = "dtor_remove"
    /\ key_callbacks' = key_callbacks \ {DtorHandle(m_key_callback)}
    /\ removed' = Append(removed, DtorHandle(m_key_callback))
    /\ life' = "destroying"
    /\ mpc' = "dtor_members"
    /\ UNCHANGED <<fenArg, retval, lfFen, m_board, m_should_quit,
                   m_key_callback, m_console, m_mutex, accept_input,
                   commands, tpc, tkey, tch, targs, delivered, processed,
                   acquisitions, quitCount, redraws, unlockedAccess,
                   staleExec, crashed,
                   createLog, mret, render>>

\* after the destructor's body the members (console reference, mutex,
\* engine) are destroyed and the storage is released
DtorMembers ==
    /\ ~crashed
    /\ mpc = "dtor_members"
    /\ life' = "destroyed"
    /\ mpc' = IF retval = "pending" THEN "create_check" ELSE "done"
    /\ UNCHANGED <<fenArg, retval, lfFen, m_board, m_should_quit,
                   m_key_callback, m_console, m_mutex, key_callbacks,
                   removed, accept_input, commands, tpc, tkey, tch, targs,
                   delivered, processed, acquisitions, quitCount, redraws,
                   unlockedAccess, staleExec, crashed,
                   createLog, mret, render>>

\* create's statements 54-56 in an order that draws before registering
CreateNextRedrawFirst(step) ==
    CASE step = "create_check" -> "create_redraw"
      [] step = "create_redraw" -> "create_register"
      [] step = "create_register" -> "create_accept"
      [] step = "create_accept" -> "create_return"

\* lines 53-59: the statement create executes after each of its steps
CreateNext(step) ==
    CASE step = "create_check" -> "create_register"
      [] step = "create_register" -> "create_redraw"
      [] step = "create_redraw" -> "create_accept"
      [] step = "create_accept" -> "create_return"

\* create going on without looking at _client
CreateClientValidAlways(l) == TRUE

\* line 53: if (_client)
CreateClientValid(l) == l = "alive"

\* lines 53 and 59
CreateCheck ==
    /\ ~crashed
    /\ mpc = "create_check"
    /\ IF CreateClientValid(life)
       THEN mpc' = CreateNext("create_check") /\ retval' = retval
       ELSE mpc' = "done" /\ retval' = "none"
    /\ mret' = "none"
    /\ UNCHANGED <<fenArg, life, lfFen, m_board, m_should_quit,
                   m_key_callback, m_console, m_mutex, key_callbacks,
                   removed, accept_input, commands, tpc, tkey, tch, targs,
                   delivered, processed, acquisitions, quitCount, redraws,
                   unlockedAccess, staleExec, crashed,
                   createLog, render>>

\* line 54 and client::register_commands (113-119)
CreateRegister ==
    /\ ~crashed
    /\ mpc = "create_register"
    /\ commands' = commands \cup {"quit"}
    /\ mpc' = CreateNext("create_register")
    /\ createLog' = Append(createLog, "register_commands")
    /\ UNCHANGED <<fenArg, retval, life, lfFen, m_board, m_should_quit,
                   m_key_callback, m_console, m_mutex, key_callbacks,
                   removed, accept_input, tpc, tkey, tch, targs, delivered,
                   processed, acquisitions, quitCount, redraws,
                   unlockedAccess, staleExec, crashed,
                   mret, render>>

\* a get_piece that empties the engine's board
EngineAfterGetPieceCleared(b) == Null

\* line 140: the engine's board after m_engine.get_piece(local, &piece)
EngineAfterGetPiece(b) == b

\* client::redraw (121-125) and redraw_board (127-148): get_piece reads the
\* engine for every square; no lock is taken
Redraw(next) ==
    /\ ~crashed
    /\ redraws < MaxRedraws
    /\ redraws' = redraws + 1
    /\ m_board' = EngineAfterGetPiece(m_board)
    /\ unlockedAccess' = Touch(MainThread, "engine", "read")
    /\ mpc' = next
    /\ createLog' = IF retval = "pending" THEN Append(createLog, "redraw")
                  ELSE createLog
    /\ mret' = "none"
    /\ UNCHANGED <<fenArg, retval, life, lfFen, m_should_quit,
                   m_key_callback, m_console, m_mutex, key_callbacks,
                   removed, accept_input, commands, tpc, tkey, tch, targs,
                   delivered, processed, acquisitions, quitCount, staleExec,
                   crashed,
                   render>>

\* line 55
CreateRedraw == mpc = "create_redraw" /\ Redraw(CreateNext("create_redraw"))

\* the value create passes to set_accept_input on line 56
CreateAcceptValue == TRUE

\* line 56
CreateAccept ==
    /\ ~crashed
    /\ mpc = "create_accept"
    /\ accept_input' = CreateAcceptValue
    /\ mpc' = CreateNext("create_accept")
    /\ createLog' = Append(createLog, "set_accept_input")
    /\ UNCHANGED <<fenArg, retval, life, lfFen, m_board, m_should_quit,
                   m_key_callback, m_console, m_mutex, key_callbacks,
                   removed, commands, tpc, tkey, tch, targs, delivered, processed,
                   acquisitions, quitCount, redraws, unlockedAccess,
                   staleExec, crashed,
                   mret, render>>

\* line 59: create returns the instance
CreateReturn ==
    /\ ~crashed
    /\ mpc = "create_return"
    /\ retval' = "instance"
    /\ mpc' = "loop"
    /\ UNCHANGED <<fenArg, life, lfFen, m_board, m_should_quit,
                   m_key_callback, m_console, m_mutex, key_callbacks,
                   removed, accept_input, commands, tpc, tkey, tch, targs,
                   delivered, processed, acquisitions, quitCount, redraws,
                   unlockedAccess, staleExec, crashed, createLog, mret,
                   render>>

\* ------------------------------------- the owner of a constructed client
CallLoadFen(f) ==
    /\ ~crashed
    /\ mpc = "loop"
    /\ lfFen' = f
    /\ mpc' = "lf_lock"
    /\ mret' = "none"
    /\ UNCHANGED <<fenArg, retval, life, m_board, m_should_quit,
                   m_key_callback, m_console, m_mutex, key_callbacks,
                   removed, accept_input, commands, tpc, tkey, tch, targs,
                   delivered, processed, acquisitions, quitCount, redraws,
                   unlockedAccess, staleExec, crashed,
                   createLog, render>>

CallRedraw == mpc = "loop" /\ Redraw("loop")

\* the owner calls client::should_quit (76)
CallShouldQuit ==
    /\ ~crashed
    /\ mpc = "loop"
    /\ mpc' = "sq_lock"
    /\ mret' = "none"
    /\ UNCHANGED <<fenArg, retval, life, lfFen, m_board, m_should_quit,
                   m_key_callback, m_console, m_mutex, key_callbacks,
                   removed, accept_input, commands, tpc, tkey, tch, targs,
                   delivered, processed, acquisitions, quitCount, redraws,
                   unlockedAccess, staleExec, crashed, createLog, render>>

\* client::should_quit, line 77
ShouldQuitLock ==
    /\ ~crashed
    /\ mpc = "sq_lock"
    /\ m_mutex = FreeMutex
    /\ m_mutex' = MainThread
    /\ mpc' = "sq_body"
    /\ UNCHANGED <<fenArg, retval, life, lfFen, m_board, m_should_quit,
                   m_key_callback, m_console, key_callbacks, removed,
                   accept_input, commands, tpc, tkey, tch, targs, delivered,
                   processed, acquisitions, quitCount, redraws,
                   unlockedAccess, staleExec, crashed,
                   createLog, mret, render>>

\* a should_quit that answers the opposite of the flag
ShouldQuitReturnNegated(q) == ~q

\* line 78: the value should_quit returns
ShouldQuitReturn(q) == q

\* line 78 and the release on return
ShouldQuitBody ==
    /\ ~crashed
    /\ mpc = "sq_body"
    /\ unlockedAccess' = Touch(MainThread, "should_quit", "read")
    /\ m_mutex' = FreeMutex
    /\ mpc' = "loop"
    /\ mret' = IF ShouldQuitReturn(m_should_quit) THEN "sq_true" ELSE "sq_false"
    /\ UNCHANGED <<fenArg, retval, life, lfFen, m_board, m_should_quit,
                   m_key_callback, m_console, key_callbacks, removed,
                   accept_input, commands, tpc, tkey, tch, targs, delivered,
                   processed, acquisitions, quitCount, redraws, staleExec,
                   crashed,
                   createLog, render>>

\* the owner drops the last reference and ~client is called
Destroy ==
    /\ ~crashed
    /\ mpc = "loop"
    /\ mpc' = "dtor_remove"
    /\ mret' = "none"
    /\ UNCHANGED <<fenArg, retval, life, lfFen, m_board, m_should_quit,
                   m_key_callback, m_console, m_mutex, key_callbacks,
                   removed, accept_input, commands, tpc, tkey, tch, targs,
                   delivered, processed, acquisitions, quitCount, redraws,
                   unlockedAccess, staleExec, crashed,
                   createLog, render>>


\* ------------------------------------------- renderer: the input threads
\* the renderer invokes client_key_callback(c, user_data) (39-42) for a
\* callback in its table
Deliver(t, c) ==
    /\ ~crashed
    /\ tpc[t] = "idle"
    /\ m_key_callback \in key_callbacks
    /\ Len(delivered) < MaxKeys
    /\ delivered' = Append(delivered, t)
    /\ tkey' = [tkey EXCEPT ![t] = Len(delivered) + 1]
    /\ tch' = [tch EXCEPT ![t] = c]
    /\ tpc' = [tpc EXCEPT ![t] = "cb_lock"]
    /\ UNCHANGED <<mpc, fenArg, retval, life, lfFen, m_board, m_should_quit,
                   m_key_callback, m_console, m_mutex, key_callbacks,
                   removed, accept_input, commands, targs, processed,
                   acquisitions, quitCount, redraws, unlockedAccess,
                   staleExec, crashed,
                   createLog, mret, render>>

\* ------------------------- client_callback_delegate::key_callback (30-33)
\* a key callback that goes on without taking m_mutex
KeyCallbackNoLock(holder, t) == holder

\* the holder of m_mutex once util::mutex_lock's constructor returns
KeyCallbackLock(holder, t) == t

\* line 31
CbLock(t) ==
    /\ ~crashed
    /\ tpc[t] = "cb_lock"
    /\ m_mutex = FreeMutex
    /\ m_mutex' = KeyCallbackLock(m_mutex, t)
    /\ acquisitions' = acquisitions + 1
    /\ tpc' = [tpc EXCEPT ![t] = "cb_process"]
    /\ staleExec' = (staleExec \/ DestructionStarted)
    /\ UNCHANGED <<mpc, fenArg, retval, life, lfFen, m_board, m_should_quit,
                   m_key_callback, m_console, key_callbacks, removed,
                   accept_input, commands, tkey, tch, targs, delivered, processed,
                   quitCount, redraws, unlockedAccess, crashed,
                   createLog, mret, render>>

\* a key callback that returns without forwarding the character
KeyCallbackDrops(log, k) == log

\* line 32: what key_callback passes on to process_keystroke
KeyCallbackForward(log, k) == Append(log, k)

\* line 32, game_console::process_keystroke with input switched off: the
\* keystroke is rejected
CbProcessRejected(t) ==
    /\ ~crashed
    /\ tpc[t] = "cb_process"
    /\ m_console
    /\ ~accept_input
    /\ processed' = KeyCallbackForward(processed, tkey[t])
    /\ tpc' = [tpc EXCEPT ![t] = "cb_unlock"]
    /\ staleExec' = (staleExec \/ DestructionStarted)
    /\ UNCHANGED <<mpc, fenArg, retval, life, lfFen, m_board, m_should_quit,
                   m_key_callback, m_console, m_mutex, key_callbacks,
                   removed, accept_input, commands, tkey, tch, targs, delivered,
                   acquisitions, quitCount, redraws, unlockedAccess, crashed,
                   createLog, mret, render>>

\* line 32, game_console::process_keystroke with input accepted and no
\* command dispatched: the character joins the console's line, or the line
\* it ends names no command
CbProcessBuffered(t) ==
    /\ ~crashed
    /\ tpc[t] = "cb_process"
    /\ m_console
    /\ accept_input
    /\ processed' = KeyCallbackForward(processed, tkey[t])
    /\ tpc' = [tpc EXCEPT ![t] = "cb_unlock"]
    /\ staleExec' = (staleExec \/ DestructionStarted)
    /\ UNCHANGED <<mpc, fenArg, retval, life, lfFen, m_board, m_should_quit,
                   m_key_callback, m_console, m_mutex, key_callbacks,
                   removed, accept_input, commands, tkey, tch, targs, delivered,
                   acquisitions, quitCount, redraws, unlockedAccess, crashed,
                   createLog, mret, render>>

\* --------------------------- console_lock (91-105), BIND_CLIENT_COMMAND
\* a console_lock that leaves input accepted while the command runs
ConsoleLockCtorLeavesOn == TRUE

\* line 95: the flag console_lock's constructor sets
ConsoleLockCtor == FALSE

\* a console_lock that does not switch input back on
ConsoleLockDtorLeavesOff == FALSE

\* line 98: the flag console_lock's destructor sets
ConsoleLockDtor == TRUE

\* line 32, game_console::process_keystroke with input accepted and the
\* line ended: the dispatcher invokes the lambda bound to a registered
\* alias with the parsed arguments; lines 108-109 construct the console_lock
CbProcessDispatch(t, alias, args) ==
    /\ ~crashed
    /\ tpc[t] = "cb_process"
    /\ m_console
    /\ accept_input
    /\ tch[t] = "\n"
    /\ alias \in commands
    /\ processed' = KeyCallbackForward(processed, tkey[t])
    /\ accept_input' = ConsoleLockCtor
    /\ targs' = [targs EXCEPT ![t] = args]
    /\ tpc' = [tpc EXCEPT ![t] = "cmd_body"]
    /\ staleExec' = (staleExec \/ DestructionStarted)
    /\ UNCHANGED <<mpc, fenArg, retval, life, lfFen, m_board, m_should_quit,
                   m_key_callback, m_console, m_mutex, key_callbacks,
                   removed, commands, tkey, tch, delivered, acquisitions,
                   quitCount, redraws, unlockedAccess, crashed,
                   createLog, mret, render>>

\* ------------------------------------------- client::command_quit (189)
\* a quit command that toggles the flag
CommandQuitToggle(q, args) == ~q

\* m_should_quit after command_quit(args)
CommandQuit(q, args) == TRUE

\* line 110 calling line 189
CmdQuit(t) ==
    /\ ~crashed
    /\ tpc[t] = "cmd_body"
    /\ m_should_quit' = CommandQuit(m_should_quit, targs[t])
    /\ unlockedAccess' = Touch(t, "should_quit", "write")
    /\ quitCount' = quitCount + 1
    /\ tpc' = [tpc EXCEPT ![t] = "cmd_exit"]
    /\ staleExec' = (staleExec \/ DestructionStarted)
    /\ UNCHANGED <<mpc, fenArg, retval, life, lfFen, m_board,
                   m_key_callback, m_console, m_mutex, key_callbacks,
                   removed, accept_input, commands, tkey, tch, targs, delivered,
                   processed, acquisitions, redraws, crashed,
                   createLog, mret, render>>

\* line 111: the lambda returns and ~console_lock (98) runs
CmdExit(t) ==
    /\ ~crashed
    /\ tpc[t] = "cmd_exit"
    /\ accept_input' = ConsoleLockDtor
    /\ targs' = [targs EXCEPT ![t] = << >>]
    /\ tpc' = [tpc EXCEPT ![t] = "cb_unlock"]
    /\ staleExec' = (staleExec \/ DestructionStarted)
    /\ UNCHANGED <<mpc, fenArg, retval, life, lfFen, m_board, m_should_quit,
                   m_key_callback, m_console, m_mutex, key_callbacks,
                   removed, commands, tkey, tch, delivered, processed,
                   acquisitions, quitCount, redraws, unlockedAccess, crashed,
                   createLog, mret, render>>

\* line 33: ~mutex_lock releases m_mutex and the callback returns
CbUnlock(t) ==
    /\ ~crashed
    /\ tpc[t] = "cb_unlock"
    /\ m_mutex' = IF m_mutex = t THEN FreeMutex ELSE m_mutex
    /\ tkey' = [tkey EXCEPT ![t] = 0]
    /\ tch' = [tch EXCEPT ![t] = ""]
    /\ tpc' = [tpc EXCEPT ![t] = "idle"]
    /\ staleExec' = (staleExec \/ DestructionStarted)
    /\ UNCHANGED <<mpc, fenArg, retval, life, lfFen, m_board, m_should_quit,
                   m_key_callback, m_console, key_callbacks, removed,
                   accept_input, commands, targs, delivered, processed,
                   acquisitions, quitCount, redraws, unlockedAccess, crashed,
                   createLog, mret, render>>

\* line 32 executed while m_console is still null (the constructor has not
\* reached line 88) faults in process_keystroke's first use of its object;
\* a statement that uses a member of a destroyed client either goes on with
\* the stale storage (the steps above) or faults. A fault ends the process.
CbFault(t) ==
    /\ ~crashed
    /\ tpc[t] # "idle"
    /\ \/ life = "destroyed"
       \/ tpc[t] = "cb_process" /\ ~m_console
    /\ crashed' = TRUE
    /\ staleExec' = (staleExec \/ DestructionStarted)
    /\ UNCHANGED <<mpc, fenArg, retval, life, lfFen, m_board, m_should_quit,
                   m_key_callback, m_console, m_mutex, key_callbacks,
                   removed, accept_input, commands, tpc, tkey, tch, targs,
                   delivered, processed, acquisitions, quitCount, redraws,
                   unlockedAccess,
                   createLog, mret, render>>

\* ---------------------------------------------------------- specification
MainStep ==
    \/ CtorSetBoard
    \/ CtorAddKeyCallback
    \/ CtorShouldQuit
    \/ CtorConsole
    \/ CreateFen
    \/ LoadFenLock
    \/ LoadFenBody
    \/ CreateReset
    \/ DtorRemove
    \/ DtorMembers
    \/ CreateCheck
    \/ CreateRegister
    \/ CreateRedraw
    \/ CreateAccept
    \/ CreateReturn
    \/ \E f \in Fens : CallLoadFen(f)
    \/ CallRedraw
    \/ CallShouldQuit
    \/ ShouldQuitLock
    \/ ShouldQuitBody
    \/ Destroy

InputStep(t) ==
    \/ \E c \in Keys : Deliver(t, c)
    \/ CbLock(t)
    \/ CbProcessRejected(t)
    \/ CbProcessBuffered(t)
    \/ \E alias \in commands, args \in ArgLists : CbProcessDispatch(t, alias, args)
    \/ CmdQuit(t)
    \/ CmdExit(t)
    \/ CbUnlock(t)
    \/ CbFault(t)

Next == MainStep \/ \E t \in InputThreads : InputStep(t)

Spec == Init /\ [][Next]_vars


\* ==================================================== redraw_board (127-187)
\* The render calls of one redraw_board(offset), one loop iteration per
\* step. render.calls is the sequence of renderer::render calls made so
\* far; a call's tile is the board square it draws (NoTile for the frame).

\* board::width
BoardWidth == 8

\* the boards an engine can hold
Boards == {BoardCreateDefault} \cup ({BoardCreate(f) : f \in Fens} \ {Null})

\* the offsets redraw_board is stepped with
Offsets == (0..MaxOffset) \X (0..MaxOffset)

\* coord(x, y) and coord's operator+
coord(x, y) == <<x, y>>
CoordAdd(a, b) == <<a[1] + b[1], a[2] + b[2]>>

\* coord::taxicab_length: the sum of the absolute components
Abs(n) == IF n < 0 THEN 0 - n ELSE n
taxicab_length(c) == Abs(c[1]) + Abs(c[2])

\* piece_info_t of an empty square
NoPiece == [type |-> "none", color |-> "none"]
PieceOf(type, color) == [type |-> type, color |-> color]
BackRank == <<"r", "n", "b", "q", "k", "b", "n", "r">>

\* m_engine.get_piece(local, &piece): the piece the board holds on a
\* square; the default board is the initial position, white on ranks 0, 1
get_piece(b, local) ==
    LET x == local[1]
        y == local[2]
    IN  CASE b = "boardDefault" ->
               IF y = 0 THEN PieceOf(BackRank[x + 1], "white")
               ELSE IF y = 1 THEN PieceOf("p", "white")
               ELSE IF y = BoardWidth - 2 THEN PieceOf("p", "black")
               ELSE IF y = BoardWidth - 1 THEN PieceOf(BackRank[x + 1], "black")
               ELSE NoPiece
          [] b = "boardA" ->
               IF local = <<4, 0>> THEN PieceOf("k", "white")
               ELSE IF local = <<4, 7>> THEN PieceOf("k", "black")
               ELSE NoPiece
          [] b = "boardB" ->
               IF local = <<6, 0>> THEN PieceOf("k", "white")
               ELSE IF local = <<3, 3>> THEN PieceOf("q", "white")
               ELSE IF local = <<2, 7>> THEN PieceOf("k", "black")
               ELSE IF local = <<0, 6>> THEN PieceOf("p", "black")
               ELSE NoPiece
          [] OTHER -> NoPiece

\* util::serialize_piece: a letter, upper case for white, or no value for
\* an empty square
NoGlyph == "no_value"
UpperCase(ch) ==
    CASE ch = "k" -> "K" [] ch = "q" -> "Q" [] ch = "r" -> "R"
      [] ch = "b" -> "B" [] ch = "n" -> "N" [] ch = "p" -> "P"
serialize_piece(p) ==
    IF p.type = "none" THEN NoGlyph
    ELSE IF p.color = "white" THEN UpperCase(p.type)
    ELSE p.type

\* std::optional::value_or
value_or(v, d) == IF v = NoGlyph THEN d ELSE v

\* renderer::render(position, glyph, fg, bg), and its default colours
NoTile == <<-1, -1>>
RenderCall(pos, glyph, fg, bg, tile) ==
    [pos |-> pos, glyph |-> glyph, fg |-> fg, bg |-> bg, tile |-> tile]
RenderFrame(pos, glyph) ==
    RenderCall(pos, glyph, "color_default", "color_default", NoTile)

\* a tile coloured by its column only
TileIsWhiteByColumn(local) == local[1] % 2 # 0

\* line 135
TileIsWhite(local) == taxicab_length(local) % 2 # 0

\* lines 136-137
TileFg(local) == IF TileIsWhite(local) THEN "color_black" ELSE "color_white"
TileBg(local) == IF TileIsWhite(local) THEN "color_white" ELSE "color_black"

\* rank y drawn on tile row y, counted from the top
PieceGlobalUnflipped(offset, x, y) ==
    CoordAdd(offset, coord(1 + (x * 2), 1 + (y * 2)))

\* line 143
PieceGlobal(offset, x, y) ==
    CoordAdd(offset, coord(1 + (x * 2), 1 + ((BoardWidth - (y + 1)) * 2)))

\* intersection loops that run on to the border
IntersectionsEndFull == BoardWidth

\* lines 163-164: the bound of both intersection loops
IntersectionsEnd == BoardWidth - 1

\* every variable redraw_board's frame loops leave alone
frameUnchanged == <<mpc, fenArg, retval, life, lfFen, m_board, m_should_quit,
          m_key_callback, m_console, m_mutex, key_callbacks, removed,
          accept_input, commands, tpc, tkey, tch, targs, delivered,
          processed, acquisitions, quitCount, redraws, unlockedAccess,
          staleExec, crashed, createLog, mret>>

\* a constructed client in its owner's loop, about to step through
\* redraw_board(offset)
InitRender ==
    /\ mpc = "loop"
    /\ fenArg = NoFen
    /\ retval = "instance"
    /\ life = "alive"
    /\ lfFen = NoFen
    /\ m_board \in Boards
    /\ m_should_quit = FALSE
    /\ m_key_callback = RendererAddKeyCallback({})
    /\ m_console = TRUE
    /\ m_mutex = FreeMutex
    /\ key_callbacks = {RendererAddKeyCallback({})}
    /\ removed = << >>
    /\ accept_input = CreateAcceptValue
    /\ commands = {"quit"}
    /\ tpc = [t \in InputThreads |-> "idle"]
    /\ tkey = [t \in InputThreads |-> 0]
    /\ tch = [t \in InputThreads |-> ""]
    /\ targs = [t \in InputThreads |-> << >>]
    /\ delivered = << >>
    /\ processed = << >>
    /\ acquisitions = 0
    /\ quitCount = 0
    /\ redraws = 1
    /\ unlockedAccess = {}
    /\ staleExec = FALSE
    /\ crashed = FALSE
    /\ createLog = <<"set_board", "register_commands", "redraw",
                    "set_accept_input">>
    /\ mret = "none"
    /\ \E o \in Offsets :
          render = [phase |-> "lines", i |-> 0, j |-> 0, offset |-> o,
                    calls |-> << >>]

\* lines 152-160: one iteration of the lines loop
FrameLines ==
    /\ render.phase = "lines"
    /\ LET i == render.i
           j == render.j
           coord_0 == i * 2
           coord_1 == 1 + (j * 2)
           out == render.calls \o
                  << RenderFrame(CoordAdd(render.offset,
                                          coord(coord_0, coord_1)), "x2551"),
                     RenderFrame(CoordAdd(render.offset,
                                          coord(coord_1, coord_0)), "x2550") >>
       IN  render' =
             IF j + 1 < BoardWidth
             THEN [render EXCEPT !.j = j + 1, !.calls = out]
             ELSE IF i + 1 <= BoardWidth
             THEN [render EXCEPT !.i = i + 1, !.j = 0, !.calls = out]
             ELSE [render EXCEPT !.phase = "intersections", !.i = 0,
                                 !.j = 0, !.calls = out]
    /\ UNCHANGED frameUnchanged

\* lines 163-170: one iteration of the intersections loop
FrameIntersections ==
    /\ render.phase = "intersections"
    /\ LET i == render.i
           j == render.j
           x == 2 + (i * 2)
           y == 2 + (j * 2)
           out == Append(render.calls,
                         RenderFrame(CoordAdd(render.offset, coord(x, y)),
                                     "x256c"))
       IN  render' =
             IF j + 1 < IntersectionsEnd
             THEN [render EXCEPT !.j = j + 1, !.calls = out]
             ELSE IF i + 1 < IntersectionsEnd
             THEN [render EXCEPT !.i = i + 1, !.j = 0, !.calls = out]
             ELSE [render EXCEPT !.phase = "corners", !.i = 0, !.j = 0,
                                 !.calls = out]
    /\ UNCHANGED frameUnchanged

\* lines 173-176
FrameCorners ==
    /\ render.phase = "corners"
    /\ LET o == render.offset
           out == render.calls \o
                  << RenderFrame(CoordAdd(o, coord(0, 0)), "x2554"),
                     RenderFrame(CoordAdd(o, coord(BoardWidth * 2, 0)),
                                 "x2557"),
                     RenderFrame(CoordAdd(o, coord(0, BoardWidth * 2)),
                                 "x255a"),
                     RenderFrame(CoordAdd(o, coord(BoardWidth * 2,
                                                   BoardWidth * 2)),
                                 "x255d") >>
       IN  render' = [render EXCEPT !.phase = "edges", !.i = 0, !.j = 0,
                                    !.calls = out]
    /\ UNCHANGED frameUnchanged

\* lines 179-186: one iteration of the edge intersections loop
FrameEdges ==
    /\ render.phase = "edges"
    /\ LET i == render.i
           o == render.offset
           c == 2 + (i * 2)
           out == render.calls \o
                  << RenderFrame(CoordAdd(o, coord(c, 0)), "x2566"),
                     RenderFrame(CoordAdd(o, coord(c, BoardWidth * 2)),
                                 "x2569"),
                     RenderFrame(CoordAdd(o, coord(0, c)), "x2560"),
                     RenderFrame(CoordAdd(o, coord(BoardWidth * 2, c)),
                                 "x2563") >>
       IN  render' =
             IF i + 1 < BoardWidth - 1
             THEN [render EXCEPT !.i = i + 1, !.calls = out]
             ELSE [render EXCEPT !.phase = "pieces", !.i = 0, !.j = 0,
                                 !.calls = out]
    /\ UNCHANGED frameUnchanged

\* lines 131-147: one iteration of the pieces loop, x = render.i and
\* y = render.j
DrawPiece ==
    /\ render.phase = "pieces"
    /\ LET x == render.i
           y == render.j
           local == coord(x, y)
           fg == TileFg(local)
           bg == TileBg(local)
           piece == get_piece(m_board, local)
           character == value_or(serialize_piece(piece), " ")
           global == PieceGlobal(render.offset, x, y)
           out == Append(render.calls,
                         RenderCall(global, character, fg, bg, local))
       IN  render' =
             IF y + 1 < BoardWidth
             THEN [render EXCEPT !.j = y + 1, !.calls = out]
             ELSE IF x + 1 < BoardWidth
             THEN [render EXCEPT !.i = x + 1, !.j = 0, !.calls = out]
             ELSE [render EXCEPT !.phase = "done", !.calls = out]
    /\ m_board' = EngineAfterGetPiece(m_board)
    /\ UNCHANGED <<mpc, fenArg, retval, life, lfFen, m_should_quit,
                   m_key_callback, m_console, m_mutex, key_callbacks,
                   removed, accept_input, commands, tpc, tkey, tch, targs,
                   delivered, processed, acquisitions, quitCount, redraws,
                   unlockedAccess, staleExec, crashed, createLog, mret>>

NextRender ==
    \/ FrameLines
    \/ FrameIntersections
    \/ FrameCorners
    \/ FrameEdges
    \/ DrawPiece

SpecRender == InitRender /\ [][NextRender]_vars


\* ================================================================ claims
\* create has passed its set_accept_input(true) (line 56)
CreatePassedAccept == mpc = "create_return" \/ retval = "instance"
InvalidFenArg == fenArg # NoFen /\ BoardCreate(fenArg) = Null
CommandExecuting(t) == tpc[t] \in {"cmd_body", "cmd_exit"}
InCriticalSection(t) == tpc[t] \in {"cb_process", "cmd_body", "cmd_exit", "cb_unlock"}
ThreadOf(d) == delivered[d]
ProcessedSet == {processed[i] : i \in 1..Len(processed)}

\* C1: every read and write of engine state and of should_quit is made by a
\* thread that holds m_mutex (the constructor's writes, redraw's get_piece
\* reads and command_quit's write included).
C1_AllAccessUnderLock == unlockedAccess = {}

\* C2: the accept-input flag is true exactly when no command callback is
\* executing and create has passed its set_accept_input(true); it is never
\* true before create finishes.
C2_AcceptInputIff ==
    accept_input <=>
        ((\A t \in InputThreads : ~CommandExecuting(t)) /\ CreatePassedAccept)

\* C2 witness: create has finished and a command is executing with the
\* flag off
C2_Witness ==
    /\ retval = "instance"
    /\ ~accept_input
    /\ \E t \in InputThreads : tpc[t] = "cmd_body"

\* C3: destroying a client calls remove_key_callback with the handle got at
\* construction, and no key callback statement executes on a client whose
\* destruction has started or completed.
C3_NoCallbackAfterDestruction ==
    /\ life = "destroyed" => removed = <<m_key_callback>>
    /\ ~staleExec

\* C4 (as claimed): for an invalid position, create returns no instance, no
\* key callback is registered with the renderer, no redraw occurs, commands
\* are not registered and accept-input is never true.
C4_InvalidFenNothingRegistered ==
    InvalidFenArg =>
        /\ retval # "instance"
        /\ m_key_callback = NoHandle
        /\ key_callbacks = {}
        /\ redraws = 0
        /\ commands = {}
        /\ ~accept_input

\* C4 (amended): for an invalid position, create returns no instance, no
\* redraw occurs, commands are not registered, accept-input is never true,
\* and when create returns the key callback the constructor registered has
\* been removed again, so none is registered.
C4_InvalidFenUnwound ==
    InvalidFenArg =>
        /\ retval # "instance"
        /\ redraws = 0
        /\ commands = {}
        /\ ~accept_input
        /\ retval = "none" =>
              /\ m_key_callback # NoHandle
              /\ removed = <<m_key_callback>>
              /\ key_callbacks = {}

\* C4 witness: create has returned no instance for an invalid position
C4_Witness == InvalidFenArg /\ retval = "none" /\ mpc = "done"

\* C5: no keystroke is forwarded to process_keystroke before the client's
\* commands are registered and its initial redraw has completed.
C5_NoForwardBeforeReady ==
    Len(processed) > 0 => (commands # {} /\ redraws > 0)

\* C6: the accept-input flag is false throughout a command's execution and
\* is true again when the command wrapper is left, so the next keystroke is
\* accepted.
C6_InputGatedAroundCommand ==
    [][\A t \in InputThreads :
          /\ CommandExecuting(t) => ~accept_input
          /\ (tpc[t] = "cmd_exit" /\ tpc'[t] = "cb_unlock") => accept_input']_vars

\* C6 witness: a second command was dispatched, so a keystroke was accepted
\* after the first command ended
C6_Witness ==
    /\ quitCount >= 1
    /\ accept_input
    /\ \E t \in InputThreads : tpc[t] = "cb_unlock" /\ m_mutex = t
    /\ Len(processed) >= 2

\* C7: N keystrokes delivered from several threads give exactly N lock
\* acquisitions and N process_keystroke calls once the callbacks have
\* returned, at most one thread is inside process_keystroke or a command at
\* a time, and no update of should_quit is lost.
C7_MutualExclusion ==
    /\ Cardinality({t \in InputThreads : InCriticalSection(t)}) <= 1
    /\ \A t \in InputThreads : InCriticalSection(t) => m_mutex = t
    /\ (\A t \in InputThreads : tpc[t] = "idle") =>
          /\ acquisitions = Len(delivered)
          /\ Len(processed) = Len(delivered)
    /\ quitCount > 0 => m_should_quit

\* C7 witness: both threads delivered keystrokes, all callbacks returned
\* and a quit command ran
C7_Witness ==
    /\ \A t \in InputThreads : tpc[t] = "idle"
    /\ \A t \in InputThreads : \E d \in 1..Len(delivered) : ThreadOf(d) = t
    /\ Len(delivered) >= 3
    /\ quitCount >= 1

\* C8 (as claimed): keystrokes are forwarded to process_keystroke strictly
\* in delivery order, with none dropped, also across threads.
C8_DeliveryOrder == \A i \in 1..Len(processed) : processed[i] = i

\* C8 (amended): keystrokes delivered by the same thread are forwarded in
\* their delivery order, every keystroke is forwarded exactly once before
\* its callback returns; keystrokes of different threads are forwarded in
\* the order in which their callbacks acquire the client lock.
C8_PerThreadOrder ==
    /\ \A i, j \in 1..Len(processed) :
          (i < j /\ ThreadOf(processed[i]) = ThreadOf(processed[j]))
              => processed[i] < processed[j]
    /\ \A i, j \in 1..Len(processed) : i # j => processed[i] # processed[j]
    /\ \A d \in 1..Len(delivered) :
          d \notin ProcessedSet =>
              /\ tkey[ThreadOf(d)] = d
              /\ tpc[ThreadOf(d)] \in {"cb_lock", "cb_process"}

\* C8 witness: two threads' keystrokes were forwarded against the delivery
\* order, and a thread had two keystrokes forwarded
C8_Witness ==
    /\ Len(processed) >= 3
    /\ \E i, j \in 1..Len(processed) : i < j /\ processed[i] > processed[j]
    /\ \E i, j \in 1..Len(processed) :
          i < j /\ ThreadOf(processed[i]) = ThreadOf(processed[j])

\* C9: the quit command is idempotent: every invocation, with any argument
\* list, leaves should_quit true and the engine unchanged and returns
\* normally, and an invocation after the first changes no client state.
ClientState == <<m_board, m_should_quit, m_key_callback, m_console, m_mutex, life>>

C9_QuitIdempotent ==
    [][\A t \in InputThreads :
          (tpc[t] = "cmd_body" /\ tpc'[t] # "cmd_body") =>
              /\ tpc'[t] = "cmd_exit"
              /\ m_should_quit'
              /\ m_board' = m_board
              /\ m_should_quit => ClientState' = ClientState]_vars

\* C9 witness: quit ran at least twice, the last time with an argument
C9_Witness ==
    /\ quitCount >= 2
    /\ m_should_quit
    /\ \E t \in InputThreads : tpc[t] = "cmd_exit" /\ targs[t] = <<"now">>

\* C10: after a successful create the engine holds a non-null board: the
\* default board without an initial position, the parsed board with one;
\* it stays non-null after load_fen calls, key callbacks and commands.
C10_BoardNonNull ==
    /\ retval = "instance" => m_board # Null
    /\ (mpc \in {"create_register", "create_redraw", "create_accept"}) =>
          m_board = IF fenArg = NoFen THEN BoardCreateDefault
                    ELSE BoardCreate(fenArg)

\* C10 witness: a client created without a position, after a load_fen and a
\* quit command
C10_Witness ==
    /\ retval = "instance"
    /\ fenArg = NoFen
    /\ m_board = "boardA"
    /\ quitCount >= 1
    /\ life = "alive"


\* C11: redraw() leaves the client state unchanged: engine board,
\* should_quit, the accept-input flag, the key-callback registration and
\* the holder of the client lock are the same after redraw as before it.
C11_RedrawLeavesClientState ==
    [][redraws' # redraws =>
          /\ ClientState' = ClientState
          /\ accept_input' = accept_input
          /\ key_callbacks' = key_callbacks
          /\ commands' = commands]_vars

\* C11 witness: a second redraw of a client whose board was replaced and
\* whose quit flag is set
C11_Witness ==
    /\ redraws >= 2
    /\ m_should_quit
    /\ m_board = "boardB"
    /\ life = "alive"

\* the render calls made so far, those that draw a tile, and the call
\* that draws board square (x, y)
Calls == {render.calls[k] : k \in 1..Len(render.calls)}
PieceCalls == {c \in Calls : c.tile # NoTile}
TileParity(c) == (c.tile[1] + c.tile[2]) % 2
ColourPair(c) == <<c.fg, c.bg>>
DrawnAt(x, y) == {c \in PieceCalls : c.tile = <<x, y>>}

\* C12: the foreground/background pair a tile is rendered with depends on
\* (x+y) mod 2 only, whatever piece stands on it: it is either black on
\* white (a white tile) or white on black (a black tile), and two tiles
\* have the same pair exactly when their coordinate sums have the same
\* parity, so (0,0) and (7,7) agree and (0,1) has the opposite pair.
C12_TileColourByParity ==
    \E even, odd \in {<<"color_black", "color_white">>,
                      <<"color_white", "color_black">>} :
       /\ even # odd
       /\ \A c \in PieceCalls :
             /\ c.tile[1] \in 0..7 /\ c.tile[2] \in 0..7
             /\ ColourPair(c) = IF TileParity(c) = 0 THEN even ELSE odd

\* C12 witness: the default position fully drawn; the occupied corner
\* squares (0,0) and (7,7) share their colours and the occupied (0,1) has
\* the opposite ones
C12_Witness ==
    /\ render.phase = "done"
    /\ m_board = BoardCreateDefault
    /\ \E a \in DrawnAt(0, 0), b \in DrawnAt(7, 7), c \in DrawnAt(0, 1) :
          /\ a.glyph = "R" /\ b.glyph = "r" /\ c.glyph = "P"
          /\ ColourPair(a) = ColourPair(b)
          /\ c.fg = a.bg /\ c.bg = a.fg /\ a.fg # a.bg

\* C13: the glyph of the piece on (x, y) is rendered at
\* offset + (1 + 2x, 1 + 2*(width-1-y)): rank 0 is on the bottom tile row
\* (the largest screen y of any tile), rank width-1 on the top tile row,
\* and a larger y always gives a strictly smaller screen y.
C13_RankFlip ==
    /\ \A c \in PieceCalls :
          LET x == c.tile[1]
              y == c.tile[2]
          IN  /\ c.pos = <<render.offset[1] + 1 + 2 * x,
                           render.offset[2] + 1 + 2 * (BoardWidth - 1 - y)>>
              /\ c.glyph = value_or(serialize_piece(get_piece(m_board, c.tile)),
                                    " ")
              /\ y = 0 => c.pos[2] = render.offset[2] + 2 * BoardWidth - 1
              /\ y = BoardWidth - 1 => c.pos[2] = render.offset[2] + 1
    /\ \A c, d \in PieceCalls :
          /\ c.tile[2] > d.tile[2] => c.pos[2] < d.pos[2]
          /\ c.tile[2] = 0 => c.pos[2] >= d.pos[2]

\* C13 witness: with a non-zero offset, the white king of rank 0 is drawn
\* on the bottom tile row and the black king of rank 7 on the top one
C13_Witness ==
    /\ render.phase = "done"
    /\ render.offset = <<0, 1>>
    /\ m_board = "boardA"
    /\ \E a \in DrawnAt(4, 0), b \in DrawnAt(4, 7) :
          /\ a.glyph = "K" /\ a.pos = <<9, 16>>
          /\ b.glyph = "k" /\ b.pos = <<9, 2>>

\* the screen square of one redraw_board(offset), a cell's coordinates
\* relative to the offset, and the glyph classes
Side == 2 * BoardWidth + 1
Square == {CoordAdd(render.offset, <<a, b>>) : a, b \in 0..(Side - 1)}
InSquare(c) ==
    /\ c.pos[1] - render.offset[1] \in 0..(Side - 1)
    /\ c.pos[2] - render.offset[2] \in 0..(Side - 1)
Rel(c) == <<c.pos[1] - render.offset[1], c.pos[2] - render.offset[2]>>
EvenCoords(c) == Cardinality({n \in 1..2 : Rel(c)[n] % 2 = 0})
LineGlyphs == {"x2551", "x2550"}
CornerGlyphs == {"x2554", "x2557", "x255a", "x255d"}
TeeGlyphs == {"x2566", "x2569", "x2560", "x2563"}
CrossGlyphs == {"x256c"}
PieceGlyphs == {" ", "K", "Q", "R", "B", "N", "P",
                "k", "q", "r", "b", "n", "p"}
CountGlyphs(G) ==
    Cardinality({k \in 1..Len(render.calls) : render.calls[k].glyph \in G})

\* C14: one redraw_board(offset) makes exactly one render call for every
\* cell of the (2*width+1) x (2*width+1) square at offset and none outside
\* it; no cell is rendered twice; cells with both coordinates odd get the
\* width*width piece glyphs, cells with exactly one even coordinate get line
\* glyphs, and the cells with both coordinates even get the 4 corners, the
\* 4*(width-1) border T-intersections and the (width-1)^2 inner crossings.
C14_OneCallPerCell ==
    /\ \A c \in Calls : InSquare(c)
    /\ Cardinality({c.pos : c \in Calls}) = Len(render.calls)
    /\ \A c \in Calls :
          CASE EvenCoords(c) = 0 -> c.tile # NoTile /\ c.glyph \in PieceGlyphs
            [] EvenCoords(c) = 1 -> c.tile = NoTile /\ c.glyph \in LineGlyphs
            [] OTHER -> /\ c.tile = NoTile
                        /\ c.glyph \in CornerGlyphs \cup TeeGlyphs \cup CrossGlyphs
    /\ render.phase = "done" =>
          /\ Len(render.calls) = Side * Side
          /\ {c.pos : c \in Calls} = Square
          /\ Cardinality(PieceCalls) = BoardWidth * BoardWidth
          /\ CountGlyphs(CornerGlyphs) = 4
          /\ CountGlyphs(TeeGlyphs) = 4 * (BoardWidth - 1)
          /\ CountGlyphs(CrossGlyphs) = (BoardWidth - 1) * (BoardWidth - 1)
          /\ \A g \in CornerGlyphs \cup TeeGlyphs : CountGlyphs({g}) =
                IF g \in CornerGlyphs THEN 1 ELSE BoardWidth - 1

\* C14 witness: a complete redraw_board at a non-zero offset whose last
\* frame cell and last tile are both on the screen
C14_Witness ==
    /\ render.phase = "done"
    /\ render.offset = <<1, 1>>
    /\ m_board = "boardB"
    /\ Len(render.calls) = 289
    /\ \E c, d \in Calls :
          /\ c.pos = <<17, 17>> /\ c.glyph = "x255d"
          /\ d.pos = <<16, 2>> /\ d.tile = <<7, 7>>

\* C15: in a successful create the engine board is set (the default, then
\* the parsed position if one was given), then the commands are registered,
\* then the full redraw is emitted, and only then create calls
\* set_accept_input(true); each happens once and in this order.
CreateOrder(f) ==
    IF f = NoFen
    THEN <<"set_board", "register_commands", "redraw", "set_accept_input">>
    ELSE <<"set_board", "set_board", "register_commands", "redraw",
           "set_accept_input">>

C15_CreateOrder ==
    /\ Len(createLog) <= Len(CreateOrder(fenArg))
    /\ createLog = SubSeq(CreateOrder(fenArg), 1, Len(createLog))
    /\ CreatePassedAccept =>
          /\ createLog = CreateOrder(fenArg)
          /\ commands = {"quit"}
          /\ redraws >= 1
    /\ (redraws > 0 /\ ~CreatePassedAccept) => (commands # {} /\ ~accept_input)

\* C15 witness: create returned an instance for a given position while
\* keystrokes were being delivered
C15_Witness ==
    /\ retval = "instance"
    /\ fenArg = "fenB"
    /\ Len(createLog) = 5
    /\ Len(processed) >= 1

\* C16: a key callback releases the client lock when it returns and no
\* command re-acquires it, so no delivered keystroke and no should_quit()
\* or load_fen() call is ever left waiting with nothing able to run.
PendingWork ==
    \/ \E t \in InputThreads : tpc[t] # "idle"
    \/ mpc \in {"lf_lock", "lf_body", "sq_lock", "sq_body"}

C16_NoStuckWork ==
    /\ \A t \in InputThreads : tpc[t] = "idle" => m_mutex # t
    /\ PendingWork => ENABLED Next

\* C17: whenever key_callback calls m_console->process_keystroke the
\* console handle is non-null.
C17_ConsoleNonNullAtCall ==
    \A t \in InputThreads : tpc[t] = "cb_process" => m_console

\* C18 (as claimed): should_quit is false when create returns, and true
\* ever after a quit command has run.
PastCtorShouldQuit == mpc \notin {"ctor_board", "ctor_addcb", "ctor_quit"}

C18_FalseWhenCreateReturns ==
    /\ mpc = "create_return" => ~m_should_quit
    /\ (quitCount > 0 /\ PastCtorShouldQuit) => m_should_quit

\* C18 (amended): should_quit is false from the constructor's assignment
\* (line 86) until the first quit command runs, which can be as early as
\* right after create's set_accept_input(true); once a quit command has run
\* it stays true, and a should_quit() call made after it returns true.
C18_QuitMonotone ==
    [][/\ (PastCtorShouldQuit /\ m_should_quit) => m_should_quit'
       /\ (PastCtorShouldQuit' /\ quitCount' = 0) => ~m_should_quit'
       /\ (mpc = "sq_body" /\ mpc' = "loop" /\ quitCount > 0)
              => mret' = "sq_true"
       /\ (mpc = "sq_body" /\ mpc' = "loop" /\ quitCount = 0)
              => mret' = "sq_false"]_vars

\* C18 witness: should_quit() returned true after a quit command, with a
\* load_fen and a redraw behind it
C18_Witness ==
    /\ mret = "sq_true"
    /\ quitCount >= 1
    /\ redraws >= 2
    /\ m_board = "boardA"

\* C19: load_fen with a rejected string returns false and leaves the client
\* unchanged with the lock released; with a valid string it returns true
\* and the engine board is the parsed board.
C19_LoadFen ==
    [][(mpc = "lf_body" /\ mpc' # "lf_body") =>
          IF BoardCreate(lfFen) = Null
          THEN /\ mret' = "lf_false"
               /\ m_board' = m_board
               /\ m_should_quit' = m_should_quit
               /\ accept_input' = accept_input
               /\ m_key_callback' = m_key_callback
               /\ m_mutex' = FreeMutex
          ELSE /\ mret' = "lf_true"
               /\ m_board' = BoardCreate(lfFen)
               /\ m_mutex' = FreeMutex]_vars

\* C19 witness: load_fen has just rejected a string on a client holding a
\* loaded board
C19_Witness ==
    /\ mret = "lf_false"
    /\ retval = "instance"
    /\ m_board = "boardB"
    /\ m_mutex = FreeMutex

====
